---- MODULE Spec2Model ----
(***************************************************************************)
(* Model of two independent pieces of the repository:                      *)
(*   - napari/layers/points/_points_key_bindings.py: the selection         *)
(*     commands select_all_in_slice and select_all_data of a Points layer; *)
(*   - bundle_conda.py: version resolution at import, _constructor(),      *)
(*     main() with its cleanup loop, and licenses().                       *)
(* Strings that the code builds with f-strings or os.path.join are tuples  *)
(* of their fragments; a version string is a tuple of characters.          *)
(***************************************************************************)
EXTENDS Integers, Sequences, FiniteSets, TLC

\* ------------------------------------------------------------------ bounds
MaxPoints == 3
MaxCalls == 3
MaxVerLen == 2
MaxFiles == 2

\* ------------------------------------------------------------------ state
VARIABLES
    \* napari/layers/points/_points_key_bindings.py
    data_len,        \* len(layer.data) == layer.data.shape[0]
    indices_view,    \* layer._indices_view, the indices of the points in the slice
    selected_data,   \* layer.selected_data
    info,            \* the last message handed to show_info
    history,         \* the select commands run so far: [op, before]
    \* bundle_conda.py, import and main()
    sys_platform,    \* sys.platform / os.name
    ARCH,            \* ARCH as computed at import
    environ,         \* os.environ, a function from the variables that are set
    version_file,    \* napari/_version.py: [exists, match, group]
    pc,              \* position in the script
    OUTPUT_FILENAME, \* <<APP, version, OS, ARCH, EXT>>, <<>> before it is computed
    version,         \* the local `version` of _constructor
    definitions,     \* the local `definitions` of _constructor
    construct_yaml,  \* what yaml.dump wrote to construct.yaml
    clean_these_files,
    created,         \* temporary artifacts put on disk by this run
    attempted,       \* the paths os.unlink was called on, in order
    failed,          \* the paths whose os.unlink raised OSError
    ctor_result,     \* how _constructor ended: "returned" or the exception
    raised,          \* the exception pending in main(), "" when none
    installer_exists,\* Path(OUTPUT_FILENAME).exists()
    outcome,         \* how main() ended
    \* bundle_conda.py, licenses()
    info_json,       \* [exists, licenses]: the manifest written by constructor
    unreadable,      \* position of the first unreadable license file, 0 if none
    lic_pc,
    output_zip,      \* the entries of the archive, in the order written
    lic_todo         \* the license files still to be written

selVars == <<data_len, indices_view, selected_data, info, history>>

buildVars == <<sys_platform, ARCH, environ, version_file, pc, OUTPUT_FILENAME,
               version, definitions, construct_yaml, clean_these_files,
               created, attempted, failed, ctor_result, raised,
               installer_exists, outcome>>

licVars == <<info_json, unreadable, lic_pc, output_zip, lic_todo>>

vars == <<selVars, buildVars, licVars>>

\* ------------------------------------------------------- Points layer state
Indices(n) == 0 .. (n - 1)

\* _indices_view is an array of distinct point indices in increasing order
IsIndicesView(s, n) ==
    /\ \A i \in 1 .. Len(s) : s[i] \in Indices(n)
    /\ \A i \in 1 .. Len(s) : \A j \in 1 .. Len(s) : i < j => s[i] < s[j]

IndicesViews(n) ==
    { s \in UNION { [1 .. k -> Indices(n)] : k \in 0 .. n } : IsIndicesView(s, n) }

\* len(layer._view_data): one row of view data per index of the slice
view_data_len == Len(indices_view)

\* set(layer._indices_view[: len(layer._view_data)])
view_selected ==
    { indices_view[i] : i \in 1 .. (IF view_data_len < Len(indices_view)
                                    THEN view_data_len ELSE Len(indices_view)) }

NoInfo == [msg |-> "none"]

InitLayer ==
    /\ data_len \in 0 .. MaxPoints
    /\ indices_view \in IndicesViews(data_len)
    /\ selected_data \in SUBSET Indices(data_len)
    /\ info = NoInfo
    /\ history = <<>>

Called(op) == Append(history, [op |-> op, before |-> selected_data])

\* select_all_in_slice with the deselect branch clearing the whole selection
select_all_in_slice_clears ==
    /\ Len(history) < MaxCalls
    /\ LET new_selected == view_selected IN
       IF (new_selected \cap selected_data) = new_selected
       THEN /\ selected_data' = {}
            /\ info' = [msg |-> "deselect_slice", n_total |-> 0]
       ELSE /\ selected_data' = selected_data \cup new_selected
            /\ info' = [msg |-> "select_slice",
                        n_new |-> Cardinality(new_selected),
                        n_total |-> Cardinality(selected_data \cup new_selected)]
    /\ history' = Called("select_all_in_slice")
    /\ UNCHANGED <<data_len, indices_view>>
    /\ UNCHANGED <<buildVars, licVars>>

\* select_all_in_slice deselecting as soon as one visible point is selected
select_all_in_slice_any ==
    /\ Len(history) < MaxCalls
    /\ LET new_selected == view_selected IN
       IF (new_selected \cap selected_data) # {} \/ new_selected = {}
       THEN /\ selected_data' = selected_data \ new_selected
            /\ info' = [msg |-> "deselect_slice",
                        n_total |-> Cardinality(selected_data \ new_selected)]
       ELSE /\ selected_data' = selected_data \cup new_selected
            /\ info' = [msg |-> "select_slice",
                        n_new |-> Cardinality(new_selected),
                        n_total |-> Cardinality(selected_data \cup new_selected)]
    /\ history' = Called("select_all_in_slice")
    /\ UNCHANGED <<data_len, indices_view>>
    /\ UNCHANGED <<buildVars, licVars>>

\* select_all_in_slice toggling each visible point on its own
select_all_in_slice_xor ==
    /\ Len(history) < MaxCalls
    /\ LET new_selected == view_selected IN
       IF (new_selected \cap selected_data) = new_selected
       THEN /\ selected_data' = selected_data \ new_selected
            /\ info' = [msg |-> "deselect_slice",
                        n_total |-> Cardinality(selected_data \ new_selected)]
       ELSE /\ selected_data' = (selected_data \ new_selected)
                                    \cup (new_selected \ selected_data)
            /\ info' = [msg |-> "select_slice",
                        n_new |-> Cardinality(new_selected),
                        n_total |-> Cardinality((selected_data \ new_selected)
                                        \cup (new_selected \ selected_data))]
    /\ history' = Called("select_all_in_slice")
    /\ UNCHANGED <<data_len, indices_view>>
    /\ UNCHANGED <<buildVars, licVars>>

select_all_in_slice ==
    /\ Len(history) < MaxCalls
    /\ LET new_selected == view_selected IN
       IF (new_selected \cap selected_data) = new_selected
       THEN /\ selected_data' = selected_data \ new_selected
            /\ info' = [msg |-> "deselect_slice",
                        n_total |-> Cardinality(selected_data \ new_selected)]
       ELSE /\ selected_data' = selected_data \cup new_selected
            /\ info' = [msg |-> "select_slice",
                        n_new |-> Cardinality(new_selected),
                        n_total |-> Cardinality(selected_data \cup new_selected)]
    /\ history' = Called("select_all_in_slice")
    /\ UNCHANGED <<data_len, indices_view>>
    /\ UNCHANGED <<buildVars, licVars>>

\* select_all_data comparing the selection with the slice instead of the data
select_all_data_view ==
    /\ Len(history) < MaxCalls
    /\ IF Cardinality(selected_data) = view_data_len
       THEN /\ selected_data' = {}
            /\ info' = [msg |-> "cleared"]
       ELSE LET new_selected == Indices(data_len) IN
            /\ selected_data' = new_selected
            /\ info' = [msg |-> "select_all",
                        n_new |-> Cardinality(new_selected),
                        n_invis |-> Cardinality(new_selected \ view_selected),
                        n_total |-> Cardinality(new_selected)]
    /\ history' = Called("select_all_data")
    /\ UNCHANGED <<data_len, indices_view>>
    /\ UNCHANGED <<buildVars, licVars>>

select_all_data ==
    /\ Len(history) < MaxCalls
    /\ IF Cardinality(selected_data) = data_len
       THEN /\ selected_data' = {}
            /\ info' = [msg |-> "cleared"]
       ELSE LET new_selected == Indices(data_len) IN
            /\ selected_data' = new_selected
            /\ info' = [msg |-> "select_all",
                        n_new |-> Cardinality(new_selected),
                        n_invis |-> Cardinality(new_selected \ view_selected),
                        n_total |-> Cardinality(new_selected)]
    /\ history' = Called("select_all_data")
    /\ UNCHANGED <<data_len, indices_view>>
    /\ UNCHANGED <<buildVars, licVars>>

\* ------------------------------------------------ bundle_conda.py, import
APP == "napari"
PYTHON_VERSION == "3.9"
NoneValue == <<"None">>
EmptyEnv == [k \in {} |-> ""]

WINDOWS == sys_platform = "win32"
MACOS == sys_platform = "darwin"
LINUX == sys_platform = "linux"
Recognized == WINDOWS \/ LINUX \/ MACOS

EXT == IF WINDOWS THEN "exe" ELSE IF LINUX THEN "sh" ELSE IF MACOS THEN "pkg" ELSE ""
OS == IF WINDOWS THEN "Windows" ELSE IF LINUX THEN "Linux"
      ELSE IF MACOS THEN "macOS" ELSE ""

\* os.environ.get(k) used as a condition: set and not the empty string
Truthy(k) == k \in DOMAIN environ /\ environ[k] # ""

\* s.split('+')[0]
StripLocal(s) ==
    LET plus == { i \in 1 .. Len(s) : s[i] = "+" } IN
    IF plus = {} THEN s
    ELSE SubSeq(s, 1, (CHOOSE i \in plus : \A j \in plus : i <= j) - 1)

_get_version ==
    IF "CONSTRUCTOR_NAPARI_VERSION" \in DOMAIN environ
    THEN [exc |-> "", value |-> environ["CONSTRUCTOR_NAPARI_VERSION"]]
    ELSE IF ~version_file.exists
    THEN [exc |-> "FileNotFoundError", value |-> NoneValue]
    ELSE IF version_file.match
    THEN [exc |-> "", value |-> StripLocal(version_file.group)]
    ELSE [exc |-> "", value |-> NoneValue]

_use_local == Truthy("CONSTRUCTOR_USE_LOCAL")

_get_channels ==
    (IF _use_local THEN <<"local">> ELSE <<>>)
    \o <<"napari/label/nightly">>
    \o (IF ARCH = "arm64" THEN <<"andfoy">> ELSE <<>>)
    \o <<"napari/label/bundle_tools", "conda-forge">>

\* _get_dependencies on a setup.cfg that lists only the entries it looks up
_get_dependencies ==
    LET napari_build_str == IF ARCH = "arm64" THEN "*pyqt*" ELSE "*pyside*"
        napari_version_str == _get_version.value
        python_version_str == <<"=", PYTHON_VERSION, ".*">>
    IN  [base |-> << <<"python">> \o python_version_str >>,
         napari |-> << <<"napari", "=", napari_version_str, "=", napari_build_str>>,
                       <<"napari-menu", "=", napari_version_str>> >>,
         menu_packages |-> << <<"napari-menu">> >>]

\* the inputs of a run
VerChars == {"1", "+"}
VersionGroups == UNION { [1 .. k -> VerChars] : k \in 1 .. MaxVerLen }
VersionFiles ==
    { [exists |-> FALSE, match |-> FALSE, group |-> <<>>],
      [exists |-> TRUE, match |-> FALSE, group |-> <<>>] }
    \cup { [exists |-> TRUE, match |-> TRUE, group |-> g] : g \in VersionGroups }
VersionEnvs ==
    { EmptyEnv, "CONSTRUCTOR_NAPARI_VERSION" :> <<"2", "+", "1">> }
SigningEnvs ==
    { EmptyEnv,
      "CONSTRUCTOR_SIGNING_IDENTITY" :> "installer-id",
      ("CONSTRUCTOR_SIGNING_IDENTITY" :> "")
          @@ ("CONSTRUCTOR_NOTARIZATION_IDENTITY" :> "developer-id"),
      "CONSTRUCTOR_SIGNING_CERTIFICATE" :> "",
      ("CONSTRUCTOR_SIGNING_IDENTITY" :> "installer-id")
          @@ ("CONSTRUCTOR_NOTARIZATION_IDENTITY" :> "developer-id")
          @@ ("CONSTRUCTOR_SIGNING_CERTIFICATE" :> "cert.pfx")
          @@ ("CONSTRUCTOR_USE_LOCAL" :> "1") }
Platforms == {"linux", "darwin", "win32", "cygwin"}
Archs == {"x86_64", "arm64"}

EmptyDefinitions == [k \in {} |-> ""]

InitBuild ==
    /\ sys_platform \in Platforms
    /\ ARCH \in Archs
    /\ \E ve \in VersionEnvs : \E se \in SigningEnvs : environ = ve @@ se
    /\ version_file \in VersionFiles
    /\ pc = "import"
    /\ OUTPUT_FILENAME = <<>>
    /\ version = <<>>
    /\ definitions = EmptyDefinitions
    /\ construct_yaml = EmptyDefinitions
    /\ clean_these_files = <<>>
    /\ created = {}
    /\ attempted = <<>>
    /\ failed = {}
    /\ ctor_result = ""
    /\ raised = ""
    /\ installer_exists = FALSE
    /\ outcome = ""

buildInputs == <<sys_platform, ARCH, environ, version_file>>

\* lines 72-92: EXT, OS and OUTPUT_FILENAME are computed when the module loads
ImportModule ==
    /\ pc = "import"
    /\ IF ~Recognized
       THEN /\ raised' = "RuntimeError"
            /\ pc' = "import_error"
            /\ UNCHANGED OUTPUT_FILENAME
       ELSE IF _get_version.exc # ""
       THEN /\ raised' = _get_version.exc
            /\ pc' = "import_error"
            /\ UNCHANGED OUTPUT_FILENAME
       ELSE /\ OUTPUT_FILENAME' = <<APP, _get_version.value, OS, ARCH, EXT>>
            /\ pc' = "main"
            /\ UNCHANGED raised
    /\ UNCHANGED <<buildInputs, version, definitions, construct_yaml,
                   clean_these_files, created, attempted, failed, ctor_result,
                   installer_exists, outcome>>
    /\ UNCHANGED <<selVars, licVars>>

\* an exception leaves _constructor and reaches the finally clause of main()
Raise(e) ==
    /\ ctor_result' = e
    /\ raised' = e
    /\ pc' = "cleanup"

\* lines 197-199
CtorFindExecutable ==
    /\ pc = "main"
    /\ \E found \in BOOLEAN :
         IF found
         THEN pc' = "ctor_version" /\ UNCHANGED <<ctor_result, raised>>
         ELSE Raise("RuntimeError")
    /\ UNCHANGED <<buildInputs, OUTPUT_FILENAME, version, definitions,
                   construct_yaml, clean_these_files, created, attempted,
                   failed, installer_exists, outcome>>
    /\ UNCHANGED <<selVars, licVars>>

\* lines 201-202; setup.cfg may lack the section or an entry looked up
CtorResolve ==
    /\ pc = "ctor_version"
    /\ \E cfg_ok \in BOOLEAN :
         IF _get_version.exc # ""
         THEN Raise(_get_version.exc) /\ UNCHANGED version
         ELSE /\ version' = _get_version.value
              /\ IF cfg_ok
                 THEN pc' = "ctor_tmpfile" /\ UNCHANGED <<ctor_result, raised>>
                 ELSE Raise("ValueError")
    /\ UNCHANGED <<buildInputs, OUTPUT_FILENAME, definitions,
                   construct_yaml, clean_these_files, created, attempted,
                   failed, installer_exists, outcome>>
    /\ UNCHANGED <<selVars, licVars>>

Put(d, k, v) == (k :> v) @@ d

EmptyFile == "/tmp/tmp_marker"
WelcomeFile == "HERE/resources/osx_pkg_welcome.rtf"
ConstructYaml == "construct.yaml"
Sidebar == "resources/napari_164x314.png"
Banner == "resources/napari_150x57.png"
Background == "resources/napari_1227x600.png"

\* lines 205-226
BaseDefinitions ==
    LET dependencies == _get_dependencies IN
    ("name" :> APP)
    @@ ("company" :> "Napari")
    @@ ("reverse_domain_identifier" :> "org.napari")
    @@ ("version" :> version)
    @@ ("channels" :> _get_channels)
    @@ ("conda_default_channels" :> <<"conda-forge">>)
    @@ ("installer_filename" :> OUTPUT_FILENAME)
    @@ ("initialize_by_default" :> FALSE)
    @@ ("license_file" :> "HERE/resources/bundle_license.rtf")
    @@ ("specs" :> dependencies.base)
    @@ ("extra_envs" :> << <<"napari-", version>>, dependencies.napari >>)
    @@ ("menu_packages" :> dependencies.menu_packages)
    @@ ("extra_files" :> << <<"resources/bundle_readme.md", "README.txt">>,
                            <<EmptyFile, ".napari_is_bundled_constructor">> >>)

\* lines 204-226
CtorDefinitions ==
    /\ pc = "ctor_tmpfile"
    /\ \E ok \in BOOLEAN :
         IF ok
         THEN /\ created' = created \cup {EmptyFile}
              /\ definitions' = BaseDefinitions
              /\ pc' = "ctor_platform"
              /\ UNCHANGED <<ctor_result, raised>>
         ELSE /\ Raise("OSError")
              /\ UNCHANGED <<created, definitions>>
    /\ UNCHANGED <<buildInputs, OUTPUT_FILENAME, version, construct_yaml,
                   clean_these_files, attempted, failed, installer_exists,
                   outcome>>
    /\ UNCHANGED <<selVars, licVars>>

\* lines 227-234
CtorLinux ==
    /\ pc = "ctor_platform"
    /\ LINUX
    /\ definitions' =
         Put(Put(Put(definitions,
             "default_prefix", <<"$HOME", ".local", <<APP, "-", version>> >>),
             "license_file", "HERE/resources/bundle_license.txt"),
             "installer_type", "sh")
    /\ pc' = "ctor_images"
    /\ UNCHANGED <<buildInputs, OUTPUT_FILENAME, version, construct_yaml,
                   clean_these_files, created, attempted, failed, ctor_result,
                   raised, installer_exists, outcome>>
    /\ UNCHANGED <<selVars, licVars>>

\* lines 239-244: what the macOS branch sets before it reads the template
MacosHead(d) ==
    Put(Put(Put(Put(d,
        "name", <<APP, "-", version>>),
        "default_location_pkg", "Library"),
        "installer_type", "pkg"),
        "welcome_image", "HERE/resources/napari_1227x600.png")

\* lines 253-255
MacosTexts(d) ==
    Put(Put(Put(d,
        "welcome_file", WelcomeFile),
        "conclusion_text", ""),
        "readme_text", "")

\* lines 256-263, with the identities written whenever the variable is set
MacosSigning_set(d) ==
    LET d1 == IF "CONSTRUCTOR_SIGNING_IDENTITY" \in DOMAIN environ
              THEN Put(d, "signing_identity_name",
                       environ["CONSTRUCTOR_SIGNING_IDENTITY"])
              ELSE d
    IN  IF "CONSTRUCTOR_NOTARIZATION_IDENTITY" \in DOMAIN environ
        THEN Put(d1, "notarization_identity_name",
                 environ["CONSTRUCTOR_NOTARIZATION_IDENTITY"])
        ELSE d1

\* lines 256-263
MacosSigning(d) ==
    LET d1 == IF Truthy("CONSTRUCTOR_SIGNING_IDENTITY")
              THEN Put(d, "signing_identity_name",
                       environ["CONSTRUCTOR_SIGNING_IDENTITY"])
              ELSE d
    IN  IF Truthy("CONSTRUCTOR_NOTARIZATION_IDENTITY")
        THEN Put(d1, "notarization_identity_name",
                 environ["CONSTRUCTOR_NOTARIZATION_IDENTITY"])
        ELSE d1

\* lines 236-263; read_text, str.replace and write_text can raise
CtorMacos ==
    /\ pc = "ctor_platform"
    /\ MACOS
    /\ \E step \in {"read_text", "write_text", "done"} :
         IF step = "read_text"
         THEN /\ definitions' = MacosHead(definitions)
              /\ Raise("FileNotFoundError")
              /\ UNCHANGED <<clean_these_files, created>>
         ELSE /\ clean_these_files' = Append(clean_these_files, WelcomeFile)
              /\ IF version = NoneValue
                 THEN /\ definitions' = MacosHead(definitions)
                      /\ Raise("TypeError")
                      /\ UNCHANGED created
                 ELSE IF step = "write_text"
                 THEN /\ definitions' = MacosHead(definitions)
                      /\ Raise("OSError")
                      /\ UNCHANGED created
                 ELSE /\ created' = created \cup {WelcomeFile}
                      /\ definitions' =
                           MacosSigning(MacosTexts(MacosHead(definitions)))
                      /\ pc' = "ctor_images"
                      /\ UNCHANGED <<ctor_result, raised>>
    /\ UNCHANGED <<buildInputs, OUTPUT_FILENAME, version, construct_yaml,
                   attempted, failed, installer_exists, outcome>>
    /\ UNCHANGED <<selVars, licVars>>

\* lines 265-294
CtorWindows ==
    /\ pc = "ctor_platform"
    /\ WINDOWS
    /\ LET d0 == Put(definitions, "conda_default_channels",
                     Append(definitions["conda_default_channels"], "defaults"))
           d1 == ("welcome_image" :> "HERE/resources/napari_164x314.png")
                 @@ ("header_image" :> "HERE/resources/napari_150x57.png")
                 @@ ("icon_image" :> "HERE/napari/resources/icon.ico")
                 @@ ("register_python_default" :> FALSE)
                 @@ ("default_prefix" :> <<"%LOCALAPPDATA%", <<APP, "-", version>> >>)
                 @@ ("default_prefix_domain_user" :>
                        <<"%LOCALAPPDATA%", <<APP, "-", version>> >>)
                 @@ ("default_prefix_all_users" :>
                        <<"%ALLUSERSPROFILE%", <<APP, "-", version>> >>)
                 @@ ("check_path_length" :> FALSE)
                 @@ ("installer_type" :> "exe")
                 @@ d0
       IN  definitions' =
             IF Truthy("CONSTRUCTOR_SIGNING_CERTIFICATE")
             THEN Put(d1, "signing_certificate",
                      environ["CONSTRUCTOR_SIGNING_CERTIFICATE"])
             ELSE d1
    /\ pc' = "ctor_images"
    /\ UNCHANGED <<buildInputs, OUTPUT_FILENAME, version, construct_yaml,
                   clean_these_files, created, attempted, failed, ctor_result,
                   raised, installer_exists, outcome>>
    /\ UNCHANGED <<selVars, licVars>>

\* definitions.get(k) used as a condition
Get(d, k) == k \in DOMAIN d /\ d[k] # ""

\* lines 104-136: the images saved, in order, for an installer type
BackgroundImages(installer_type) ==
    IF installer_type = "sh" THEN <<>>
    ELSE (IF installer_type \in {"exe", "all"} THEN <<Sidebar, Banner>> ELSE <<>>)
         \o (IF installer_type \in {"pkg", "all"} THEN <<Background>> ELSE <<>>)

SeqToSet(s) == { s[i] : i \in 1 .. Len(s) }

\* lines 296-299 and 104-136; r = -1: PIL or the logo cannot be loaded,
\* r < number of images: saving image r + 1 raised
CtorImages ==
    /\ pc = "ctor_images"
    /\ IF Get(definitions, "welcome_image") \/ Get(definitions, "header_image")
       THEN LET installer_type == IF "installer_type" \in DOMAIN definitions
                                  THEN definitions["installer_type"] ELSE "all"
                images == BackgroundImages(installer_type)
            IN  IF installer_type = "sh"
                THEN /\ pc' = "ctor_yaml"
                     /\ UNCHANGED <<clean_these_files, created, ctor_result, raised>>
                ELSE \E r \in -1 .. Len(images) :
                       LET saved == IF r < 0 THEN <<>> ELSE SubSeq(images, 1, r) IN
                       /\ clean_these_files' = clean_these_files \o saved
                       /\ created' = created \cup SeqToSet(saved)
                       /\ IF r = Len(images)
                          THEN pc' = "ctor_yaml" /\ UNCHANGED <<ctor_result, raised>>
                          ELSE Raise("OSError")
       ELSE /\ pc' = "ctor_yaml"
            /\ UNCHANGED <<clean_these_files, created, ctor_result, raised>>
    /\ UNCHANGED <<buildInputs, OUTPUT_FILENAME, version, definitions,
                   construct_yaml, attempted, failed, installer_exists, outcome>>
    /\ UNCHANGED <<selVars, licVars>>

\* lines 301-313
CtorWriteYaml ==
    /\ pc = "ctor_yaml"
    /\ clean_these_files' = clean_these_files \o <<ConstructYaml, EmptyFile>>
    /\ \E step \in {"open", "dump", "done"} :
         IF step = "open"
         THEN /\ Raise("OSError")
              /\ UNCHANGED <<created, construct_yaml>>
         ELSE /\ created' = created \cup {ConstructYaml}
              /\ IF step = "dump"
                 THEN Raise("YAMLError") /\ UNCHANGED construct_yaml
                 ELSE /\ construct_yaml' = definitions
                      /\ pc' = "ctor_build"
                      /\ UNCHANGED <<ctor_result, raised>>
    /\ UNCHANGED <<buildInputs, OUTPUT_FILENAME, version, definitions,
                   attempted, failed, installer_exists, outcome>>
    /\ UNCHANGED <<selVars, licVars>>

\* lines 315-326
CtorBuild ==
    /\ pc = "ctor_build"
    /\ \E result \in {"nonzero", "built", "no_installer"} :
         IF result = "nonzero"
         THEN Raise("CalledProcessError") /\ UNCHANGED installer_exists
         ELSE /\ installer_exists' = (result = "built")
              /\ ctor_result' = "returned"
              /\ pc' = "cleanup"
              /\ UNCHANGED raised
    /\ UNCHANGED <<buildInputs, OUTPUT_FILENAME, version, definitions,
                   construct_yaml, clean_these_files, created, attempted,
                   failed, outcome>>
    /\ UNCHANGED <<selVars, licVars>>

\* lines 361-365 without the except clause: the OSError leaves main()
Unlink_propagates ==
    /\ pc = "cleanup"
    /\ Len(attempted) < Len(clean_these_files)
    /\ LET path == clean_these_files[Len(attempted) + 1] IN
       /\ attempted' = Append(attempted, path)
       /\ \E ok \in BOOLEAN :
            /\ ok => path \in created
            /\ IF ok
               THEN UNCHANGED <<failed, raised, pc, outcome>>
               ELSE /\ failed' = failed \cup {path}
                    /\ raised' = "OSError"
                    /\ outcome' = "OSError"
                    /\ pc' = "done"
    /\ UNCHANGED <<buildInputs, OUTPUT_FILENAME, version, definitions,
                   construct_yaml, clean_these_files, created, ctor_result,
                   installer_exists>>
    /\ UNCHANGED <<selVars, licVars>>

\* lines 361-365: one turn of the cleanup loop
Unlink ==
    /\ pc = "cleanup"
    /\ Len(attempted) < Len(clean_these_files)
    /\ LET path == clean_these_files[Len(attempted) + 1] IN
       /\ attempted' = Append(attempted, path)
       /\ \E ok \in BOOLEAN :
            /\ ok => path \in created
            /\ failed' = IF ok THEN failed ELSE failed \cup {path}
    /\ UNCHANGED <<buildInputs, pc, OUTPUT_FILENAME, version, definitions,
                   construct_yaml, clean_these_files, created, ctor_result,
                   raised, installer_exists, outcome>>
    /\ UNCHANGED <<selVars, licVars>>

\* lines 360-367: the loop is over; re-raise, or assert and return
MainFinish ==
    /\ pc = "cleanup"
    /\ Len(attempted) = Len(clean_these_files)
    /\ outcome' = IF raised # "" THEN raised
                  ELSE IF installer_exists THEN "returned"
                  ELSE "AssertionError"
    /\ pc' = "done"
    /\ UNCHANGED <<buildInputs, OUTPUT_FILENAME, version, definitions,
                   construct_yaml, clean_these_files, created, attempted,
                   failed, ctor_result, raised, installer_exists>>
    /\ UNCHANGED <<selVars, licVars>>

NextBuild ==
    \/ ImportModule
    \/ CtorFindExecutable
    \/ CtorResolve
    \/ CtorDefinitions
    \/ CtorLinux
    \/ CtorMacos
    \/ CtorWindows
    \/ CtorImages
    \/ CtorWriteYaml
    \/ CtorBuild
    \/ Unlink
    \/ MainFinish

\* --------------------------------------------- bundle_conda.py, licenses()
\* package ids as constructor writes them, channel::name, in tokens
PackageIds == << <<"conda-forge", "::", "pkg">>, <<"napari", "::", "pkg">> >>
\* license types, in characters
LicenseTypes == << <<"B", " ", "3">>, <<"B", "_", "3">> >>

\* info["_licenses"]: package -> license type -> number of license files
LicenseInfos ==
    UNION { [T -> 0 .. MaxFiles] : T \in SUBSET (1 .. Len(LicenseTypes)) }
Manifests ==
    UNION { [P -> LicenseInfos] : P \in SUBSET (1 .. Len(PackageIds)) }

\* package_id.split("::", 1)[1]
SplitOnce(package_id) ==
    LET seps == { i \in 1 .. Len(package_id) : package_id[i] = "::" }
        first == CHOOSE i \in seps : \A j \in seps : i <= j
    IN  SubSeq(package_id, first + 1, Len(package_id))

\* license_type.replace(' ', '_')
ReplaceSpaces(license_type) ==
    [i \in 1 .. Len(license_type) |->
        IF license_type[i] = " " THEN "_" ELSE license_type[i]]

\* f"{package_name}.{license_type.replace(' ', '_')}.{i}.txt"
ArcName(p, t, i) ==
    <<SplitOnce(PackageIds[p]), ".", ReplaceSpaces(LicenseTypes[t]), ".", i, ".txt">>

\* the license files of a manifest: (package, license type, enumerate index)
LicenseFiles(m) ==
    { <<p, t, i>> \in (1 .. Len(PackageIds)) \X (1 .. Len(LicenseTypes))
                      \X (1 .. MaxFiles) :
        p \in DOMAIN m /\ t \in DOMAIN m[p] /\ i <= m[p][t] }

Before3(a, b) ==
    \/ a[1] < b[1]
    \/ a[1] = b[1] /\ a[2] < b[2]
    \/ a[1] = b[1] /\ a[2] = b[2] /\ a[3] < b[3]

\* lines 345-348: the order in which the three nested loops visit the files
RECURSIVE InLoopOrder(_)
InLoopOrder(S) ==
    IF S = {} THEN <<>>
    ELSE LET x == CHOOSE a \in S : \A b \in S \ {a} : Before3(a, b)
         IN  <<x>> \o InLoopOrder(S \ {x})

\* ZipFile.write keeping one entry per name
ZipWrite_byname(zip, arcname) ==
    IF \E k \in 1 .. Len(zip) : zip[k] = arcname THEN zip ELSE Append(zip, arcname)

\* ZipFile.write: appends an entry, also when the name is already there
ZipWrite(zip, arcname) == Append(zip, arcname)

InfoJsonName == <<"info.json">>

InitLicenses ==
    /\ info_json \in { [exists |-> FALSE, licenses |-> <<>>] }
                     \cup { [exists |-> TRUE, licenses |-> m] : m \in Manifests }
    /\ unreadable \in 0 .. Cardinality(LicenseFiles(info_json.licenses))
    /\ lic_pc = "start"
    /\ output_zip = <<>>
    /\ lic_todo = <<>>

\* lines 330-338
LicLoad ==
    /\ lic_pc = "start"
    /\ IF info_json.exists
       THEN /\ lic_pc' = "loaded"
            /\ lic_todo' = InLoopOrder(LicenseFiles(info_json.licenses))
       ELSE /\ lic_pc' = "FileNotFoundError"
            /\ UNCHANGED lic_todo
    /\ UNCHANGED <<info_json, unreadable, output_zip>>
    /\ UNCHANGED <<selVars, buildVars>>

\* lines 340-344
LicCreateZip ==
    /\ lic_pc = "loaded"
    /\ output_zip' = ZipWrite(output_zip, InfoJsonName)
    /\ lic_pc' = "loop"
    /\ UNCHANGED <<info_json, unreadable, lic_todo>>
    /\ UNCHANGED <<selVars, buildVars>>

\* lines 345-352: one turn of the innermost loop
LicWriteLicense ==
    /\ lic_pc = "loop"
    /\ lic_todo # <<>>
    /\ LET f == Head(lic_todo)
           position == Cardinality(LicenseFiles(info_json.licenses))
                       - Len(lic_todo) + 1
       IN  IF position = unreadable
           THEN /\ lic_pc' = "OSError"
                /\ UNCHANGED <<output_zip, lic_todo>>
           ELSE /\ output_zip' = ZipWrite(output_zip, ArcName(f[1], f[2], f[3]))
                /\ lic_todo' = Tail(lic_todo)
                /\ UNCHANGED lic_pc
    /\ UNCHANGED <<info_json, unreadable>>
    /\ UNCHANGED <<selVars, buildVars>>

\* lines 353-354
LicClose ==
    /\ lic_pc = "loop"
    /\ lic_todo = <<>>
    /\ lic_pc' = "done"
    /\ UNCHANGED <<info_json, unreadable, output_zip, lic_todo>>
    /\ UNCHANGED <<selVars, buildVars>>

NextLicenses ==
    \/ LicLoad
    \/ LicCreateZip
    \/ LicWriteLicense
    \/ LicClose

\* ------------------------------------------------------- specifications
\* each specification runs one component and holds the others still
IdleLayer ==
    /\ data_len = 0
    /\ indices_view = <<>>
    /\ selected_data = {}
    /\ info = NoInfo
    /\ history = <<>>

IdleBuild ==
    /\ sys_platform = "linux"
    /\ ARCH = "x86_64"
    /\ environ = EmptyEnv
    /\ version_file = [exists |-> FALSE, match |-> FALSE, group |-> <<>>]
    /\ pc = "idle"
    /\ OUTPUT_FILENAME = <<>>
    /\ version = <<>>
    /\ definitions = EmptyDefinitions
    /\ construct_yaml = EmptyDefinitions
    /\ clean_these_files = <<>>
    /\ created = {}
    /\ attempted = <<>>
    /\ failed = {}
    /\ ctor_result = ""
    /\ raised = ""
    /\ installer_exists = FALSE
    /\ outcome = ""

IdleLicenses ==
    /\ info_json = [exists |-> FALSE, licenses |-> <<>>]
    /\ unreadable = 0
    /\ lic_pc = "idle"
    /\ output_zip = <<>>
    /\ lic_todo = <<>>

Init == InitLayer /\ IdleBuild /\ IdleLicenses

Next ==
    \/ select_all_in_slice
    \/ select_all_data

Spec == Init /\ [][Next]_vars

InitMain == IdleLayer /\ InitBuild /\ IdleLicenses

SpecBuild == InitMain /\ [][NextBuild]_vars

InitLic == IdleLayer /\ IdleBuild /\ InitLicenses

SpecLicenses == InitLic /\ [][NextLicenses]_vars

\* ------------------------------------------------------- claims, selection
LastOp == IF history = <<>> THEN "none" ELSE history[Len(history)].op
Before == history[Len(history)].before
AllPoints == Indices(data_len)

TwiceInSlice ==
    /\ Len(history) >= 2
    /\ history[Len(history)].op = "select_all_in_slice"
    /\ history[Len(history) - 1].op = "select_all_in_slice"
Original == history[Len(history) - 1].before

\* C1 (as stated): two consecutive select_all_in_slice calls, data and slice
\* unchanged, leave selected_data equal to the selection before the first.
C1_SelfInverse ==
    TwiceInSlice => selected_data = Original

\* C1 (amended): two consecutive select_all_in_slice calls restore the
\* original selection S when the visible set V was entirely selected or
\* entirely unselected before the first call; when V and S overlap only
\* partly the result is S minus V.
C1_SelfInverseUnlessPartial ==
    TwiceInSlice =>
        LET V == view_selected
            S == Original
        IN  IF V \subseteq S \/ V \cap S = {}
            THEN selected_data = S
            ELSE selected_data = S \ V

C1_Witness ==
    /\ TwiceInSlice
    /\ view_selected # {}
    /\ view_selected \cap Original = {}
    /\ Original # {}
    /\ selected_data = Original

\* C2: select_all_in_slice removes V from S when every visible item is
\* selected, and otherwise (partial overlap included) adds V to S; afterwards
\* V is inside the selection or disjoint from it.
C2_InSliceToggle ==
    LastOp = "select_all_in_slice" =>
        LET V == view_selected
            S == Before
        IN  /\ (V \subseteq S) => selected_data = S \ V
            /\ ~(V \subseteq S) => selected_data = S \cup V
            /\ V \subseteq selected_data \/ V \cap selected_data = {}

C2_Witness ==
    /\ LastOp = "select_all_in_slice"
    /\ view_selected \cap Before # {}
    /\ ~(view_selected \subseteq Before)
    /\ selected_data = Before \cup view_selected

\* C3: select_all_data clears the selection when S holds every item and
\* otherwise selects exactly 0..N-1 whatever is visible, for every N >= 0.
C3_SelectAllData ==
    LastOp = "select_all_data" =>
        /\ (Before = AllPoints) => selected_data = {}
        /\ (Before # AllPoints) => selected_data = AllPoints

C3_Witness ==
    /\ LastOp = "select_all_data"
    /\ Before # AllPoints
    /\ Cardinality(Before) = view_data_len
    /\ selected_data = AllPoints

\* C8 (as stated): the select branches report n_new = the number of items
\* newly in selected_data, n_total = the size of selected_data, and
\* select_all_data reports n_invis = the newly selected items outside the
\* visible set.
C8_ReportedCounts ==
    /\ info.msg = "select_slice" =>
        /\ info.n_new = Cardinality(selected_data \ Before)
        /\ info.n_total = Cardinality(selected_data)
    /\ info.msg = "select_all" =>
        /\ info.n_new = Cardinality(selected_data \ Before)
        /\ info.n_total = Cardinality(selected_data)
        /\ info.n_invis = Cardinality((selected_data \ Before) \ view_selected)

\* C10: select_all_in_slice leaves the selection status of every item outside
\* the visible set as it was, and selected_data stays a subset of the layer's
\* item indices under any sequence of the two select commands.
C10_Frame ==
    /\ LastOp = "select_all_in_slice" =>
        \A i \in AllPoints \ view_selected :
            (i \in selected_data) <=> (i \in Before)
    /\ selected_data \subseteq AllPoints

C10_Witness ==
    /\ LastOp = "select_all_in_slice"
    /\ view_selected \subseteq Before
    /\ view_selected # {}
    /\ Before \ view_selected # {}
    /\ selected_data = Before \ view_selected

\* ------------------------------------------------- claims, bundle_conda.py
\* C4 (as stated): when main() has finished, however _constructor ended, a
\* deletion has been attempted for every temporary artifact created in the run.
C4_AllCreatedAttempted ==
    pc = "done" => created \subseteq SeqToSet(attempted)

VersionUnresolved ==
    /\ "CONSTRUCTOR_NAPARI_VERSION" \notin DOMAIN environ
    /\ ~version_file.exists \/ ~version_file.match

\* C5 (as stated): with no override variable and no version in the metadata
\* file, version resolution is fatal: no output filename and no installer
\* definition is ever computed.
C5_UnresolvedIsFatal ==
    VersionUnresolved =>
        /\ pc \in {"import", "import_error"}
        /\ OUTPUT_FILENAME = <<>>
        /\ DOMAIN definitions = {}

BaseKeys ==
    {"name", "company", "reverse_domain_identifier", "version", "channels",
     "conda_default_channels", "installer_filename", "initialize_by_default",
     "license_file", "specs", "extra_envs", "menu_packages", "extra_files"}

NonEmptyVar(k) == k \in DOMAIN environ /\ environ[k] # ""

LinuxKeys == {"default_prefix", "installer_type"}

MacosKeys ==
    {"default_location_pkg", "installer_type", "welcome_image", "welcome_file",
     "conclusion_text", "readme_text"}
    \cup (IF NonEmptyVar("CONSTRUCTOR_SIGNING_IDENTITY")
          THEN {"signing_identity_name"} ELSE {})
    \cup (IF NonEmptyVar("CONSTRUCTOR_NOTARIZATION_IDENTITY")
          THEN {"notarization_identity_name"} ELSE {})

WindowsKeys ==
    {"welcome_image", "header_image", "icon_image", "register_python_default",
     "default_prefix", "default_prefix_domain_user", "default_prefix_all_users",
     "check_path_length", "installer_type"}
    \cup (IF NonEmptyVar("CONSTRUCTOR_SIGNING_CERTIFICATE")
          THEN {"signing_certificate"} ELSE {})

Emitted == DOMAIN construct_yaml # {}

\* C6: the definition written to construct.yaml holds, beyond the common
\* keys, exactly the keys of the active OS branch (the signing keys only when
\* their variable is non-empty), and installer_type equals EXT.
C6_PlatformKeys ==
    Emitted =>
        /\ BaseKeys \subseteq DOMAIN construct_yaml
        /\ LINUX => (DOMAIN construct_yaml) \ BaseKeys = LinuxKeys
        /\ MACOS => (DOMAIN construct_yaml) \ BaseKeys = MacosKeys
        /\ WINDOWS => (DOMAIN construct_yaml) \ BaseKeys = WindowsKeys
        /\ construct_yaml["installer_type"] = EXT

C6_Witness ==
    /\ Emitted
    /\ MACOS
    /\ "CONSTRUCTOR_SIGNING_IDENTITY" \in DOMAIN environ
    /\ "signing_identity_name" \notin DOMAIN construct_yaml
    /\ "notarization_identity_name" \in DOMAIN construct_yaml

\* C7: a deletion that fails does not stop the cleanup of main(): every path
\* of clean_these_files is still tried, in order, and main() ends as
\* _constructor's result alone decides.
C7_CleanupNotFatal ==
    pc = "done" =>
        /\ attempted = clean_these_files
        /\ outcome = (IF ctor_result # "returned" THEN ctor_result
                      ELSE IF installer_exists THEN "returned"
                      ELSE "AssertionError")

C7_Witness ==
    /\ pc = "done"
    /\ outcome = "returned"
    /\ \E i \in 1 .. Len(attempted) : \E j \in 1 .. Len(attempted) :
         i < j /\ attempted[i] \in failed /\ attempted[j] \notin failed

RECURSIVE SumFn(_, _)
SumFn(f, S) ==
    IF S = {} THEN 0
    ELSE LET x == CHOOSE y \in S : TRUE IN f[x] + SumFn(f, S \ {x})

\* N: the license files listed by the manifest, over all packages and types
TotalLicenseFiles ==
    LET m == info_json.licenses IN
    SumFn([p \in DOMAIN m |-> SumFn(m[p], DOMAIN m[p])], DOMAIN m)

\* C9: licenses() on a manifest listing N readable license files writes an
\* archive of exactly N + 1 entries, info.json and one per license file; with
\* info.json absent it raises and writes no entry.
C9_LicenseArchive ==
    /\ (lic_pc = "done" /\ unreadable = 0) =>
        /\ Len(output_zip) = TotalLicenseFiles + 1
        /\ Cardinality({ k \in 1 .. Len(output_zip) :
                            output_zip[k] = InfoJsonName }) = 1
    /\ (lic_pc # "idle" /\ ~info_json.exists) =>
        /\ output_zip = <<>>
        /\ lic_pc \in {"start", "FileNotFoundError"}

C9_Witness ==
    /\ lic_pc = "done"
    /\ TotalLicenseFiles >= 2
    /\ \E i \in 1 .. Len(output_zip) : \E j \in 1 .. Len(output_zip) :
         i < j /\ output_zip[i] = output_zip[j]
====
